---- MODULE Spec2Model ----
(* Pydis: a RESP-like key-value server (src/main.py).                       *)
(* Python objects are tagged tuples <<tag, payload>>:                       *)
(*   <<"bytes", seq of bytes>>   <<"str", seq of characters>>               *)
(*   <<"int", n>>                <<"None", 0>>                              *)
(*   <<"Error", message>>        (message is itself a bytes or str object)  *)
(*   <<"list", seq of objects>>  <<"tuple", seq of objects>>                *)
(*   <<"dict", seq of <<key, value>> in insertion order, keys unique>>      *)
(* A byte is a one-character string; CR and LF are "\r" and "\n".           *)
EXTENDS Integers, Sequences, FiniteSets, TLC

CR == "\r"
LF == "\n"
CRLF == <<CR, LF>>

Digits == <<"0", "1", "2", "3", "4", "5", "6", "7", "8", "9">>
DigitSet == {Digits[i] : i \in 1..10}
DigitVal(d) == (CHOOSE i \in 1..10 : Digits[i] = d) - 1

\* bytes that int() and bytes.split() treat as whitespace
\* the byte 0x0b, vertical tab, which has no escape in a string
VT == ""

Whitespace == {" ", "\t", CR, LF, VT, "\f"}

\* ---------------------------------------------------------------- objects
Bytes(s) == <<"bytes", s>>
Str(s) == <<"str", s>>
PyInt(n) == <<"int", n>>
None == <<"None", 0>>
Error(m) == <<"Error", m>>
List(s) == <<"list", s>>
Tuple(s) == <<"tuple", s>>
Dict(s) == <<"dict", s>>

Tag(v) == v[1]
Payload(v) == v[2]

\* ------------------------------------------------- results of a call
\* st = "ok": val is the returned object; st = "raise": val is
\* <<exception class, message>>; st = "block": the read is waiting for bytes.
\* rest is what is left unread on the stream.
Ok(v, rest) == [st |-> "ok", val |-> v, rest |-> rest]
Raise(cls, msg, rest) == [st |-> "raise", val |-> <<cls, msg>>, rest |-> rest]
Block(rest) == [st |-> "block", val |-> None, rest |-> rest]

\* ----------------------------------------------------- stream primitives
\* index of the first LF in s, 0 when there is none
RECURSIVE FirstLF(_, _)
FirstLF(s, i) ==
    IF i > Len(s) THEN 0
    ELSE IF s[i] = LF THEN i ELSE FirstLF(s, i + 1)

\* socket_file.readline(): up to and including the first LF; at end of
\* stream, whatever is left
readline(buf, eof) ==
    LET i == FirstLF(buf, 1) IN
    IF i > 0 THEN Ok(SubSeq(buf, 1, i), SubSeq(buf, i + 1, Len(buf)))
    ELSE IF eof THEN Ok(buf, <<>>)
    ELSE Block(buf)

\* socket_file.read(n)
read(buf, eof, n) ==
    IF n < -1 THEN Raise("ValueError", Str(<<"read length must be non-negative or -1">>), buf)
    ELSE IF n = -1 THEN (IF eof THEN Ok(buf, <<>>) ELSE Block(buf))
    ELSE IF Len(buf) >= n THEN Ok(SubSeq(buf, 1, n), SubSeq(buf, n + 1, Len(buf)))
    ELSE IF eof THEN Ok(buf, <<>>)
    ELSE Block(buf)

\* bytes.rstrip(b"\r\n"): drops every trailing CR and LF
RECURSIVE rstrip(_)
rstrip(s) ==
    IF s # <<>> /\ s[Len(s)] \in {CR, LF} THEN rstrip(SubSeq(s, 1, Len(s) - 1))
    ELSE s

RECURSIVE lstripWs(_)
lstripWs(s) ==
    IF s # <<>> /\ Head(s) \in Whitespace THEN lstripWs(Tail(s)) ELSE s

RECURSIVE rstripWs(_)
rstripWs(s) ==
    IF s # <<>> /\ s[Len(s)] \in Whitespace THEN rstripWs(SubSeq(s, 1, Len(s) - 1))
    ELSE s

\* ------------------------------------------------------------ int(bytes)
\* digits with single underscores between them
RECURSIVE DigitsOk(_, _)
DigitsOk(s, prevDigit) ==
    IF s = <<>> THEN prevDigit
    ELSE IF Head(s) \in DigitSet THEN DigitsOk(Tail(s), TRUE)
    ELSE IF Head(s) = "_" THEN prevDigit /\ DigitsOk(Tail(s), FALSE)
    ELSE FALSE

RECURSIVE DigitsValue(_, _)
DigitsValue(s, acc) ==
    IF s = <<>> THEN acc
    ELSE IF Head(s) = "_" THEN DigitsValue(Tail(s), acc)
    ELSE DigitsValue(Tail(s), 10 * acc + DigitVal(Head(s)))

\* int(s) for a bytes object s: surrounding whitespace is ignored, one
\* optional sign, then decimal digits; anything else is a ValueError
int(s) ==
    LET t == rstripWs(lstripWs(s))
        signed == t # <<>> /\ Head(t) \in {"+", "-"}
        d == IF signed THEN Tail(t) ELSE t
    IN  IF DigitsOk(d, FALSE)
        THEN Ok(PyInt(IF signed /\ Head(t) = "-" THEN 0 - DigitsValue(d, 0)
                                               ELSE DigitsValue(d, 0)), <<>>)
        ELSE Raise("ValueError", Str(<<"invalid literal for int() with base 10">>), <<>>)

\* b"%d" % n
RECURSIVE NatToBytes(_)
NatToBytes(n) ==
    IF n < 10 THEN <<Digits[n + 1]>>
    ELSE NatToBytes(n \div 10) \o <<Digits[(n % 10) + 1]>>

IntToBytes(n) == IF n < 0 THEN <<"-">> \o NatToBytes(0 - n) ELSE NatToBytes(n)

\* ---------------------------------------------------------------- dicts
Hashable(v) == Tag(v) \notin {"list", "dict"}

RECURSIVE DictIndex(_, _, _)
DictIndex(pairs, k, i) ==
    IF i > Len(pairs) THEN 0
    ELSE IF pairs[i][1] = k THEN i ELSE DictIndex(pairs, k, i + 1)

DictHas(pairs, k) == DictIndex(pairs, k, 1) > 0

\* d.get(k)
DictGet(pairs, k) ==
    LET i == DictIndex(pairs, k, 1) IN IF i > 0 THEN pairs[i][2] ELSE None

\* d[k] = v : an existing key keeps its position
DictSet(pairs, k, v) ==
    LET i == DictIndex(pairs, k, 1) IN
    IF i > 0 THEN [pairs EXCEPT ![i] = <<k, v>>] ELSE Append(pairs, <<k, v>>)

\* del d[k]
DictDel(pairs, k) ==
    LET i == DictIndex(pairs, k, 1) IN
    IF i > 0 THEN SubSeq(pairs, 1, i - 1) \o SubSeq(pairs, i + 1, Len(pairs))
    ELSE pairs

\* dict(zip(elements[::2], elements[1::2]))
RECURSIVE DictFromElements(_, _, _)
DictFromElements(elements, i, acc) ==
    IF i + 1 > Len(elements) THEN Ok(Dict(acc), <<>>)
    ELSE IF ~Hashable(elements[i])
         THEN Raise("TypeError", Str(<<"unhashable type">>), <<>>)
    ELSE DictFromElements(elements, i + 2, DictSet(acc, elements[i], elements[i + 1]))

\* ------------------------------------------------------------- decoding
RECURSIVE handle_request(_, _)
RECURSIVE read_elements(_, _, _, _)

\* [self.handle_request(socket_file) for _ in range(n)]
read_elements(buf, eof, n, acc) ==
    IF n <= 0 THEN Ok(List(acc), buf)
    ELSE LET r == handle_request(buf, eof) IN
         IF r.st = "ok" THEN read_elements(r.rest, eof, n - 1, Append(acc, r.val))
         ELSE r

handle_simple_string(buf, eof) ==
    LET l == readline(buf, eof) IN
    IF l.st # "ok" THEN l ELSE Ok(Bytes(rstrip(l.val)), l.rest)

handle_error(buf, eof) ==
    LET l == readline(buf, eof) IN
    IF l.st # "ok" THEN l ELSE Ok(Error(Bytes(rstrip(l.val))), l.rest)

handle_integer(buf, eof) ==
    LET l == readline(buf, eof) IN
    IF l.st # "ok" THEN l
    ELSE LET n == int(rstrip(l.val)) IN
         IF n.st = "ok" THEN Ok(n.val, l.rest) ELSE Raise(n.val[1], n.val[2], l.rest)

\* handle_string reading the payload without its trailing CRLF
handle_string_short(buf, eof) ==
    LET l == readline(buf, eof) IN
    IF l.st # "ok" THEN l
    ELSE LET length == int(rstrip(l.val)) IN
         IF length.st # "ok" THEN Raise(length.val[1], length.val[2], l.rest)
         ELSE IF Payload(length.val) = -1 THEN Ok(None, l.rest)
         ELSE LET data == read(l.rest, eof, Payload(length.val)) IN
              IF data.st # "ok" THEN data
              ELSE Ok(Bytes(data.val), data.rest)

handle_string(buf, eof) ==
    LET l == readline(buf, eof) IN
    IF l.st # "ok" THEN l
    ELSE LET length == int(rstrip(l.val)) IN
         IF length.st # "ok" THEN Raise(length.val[1], length.val[2], l.rest)
         ELSE IF Payload(length.val) = -1 THEN Ok(None, l.rest)
         ELSE LET data == read(l.rest, eof, Payload(length.val) + 2) IN
              IF data.st # "ok" THEN data
              ELSE Ok(Bytes(SubSeq(data.val, 1, Len(data.val) - 2)), data.rest)

handle_array(buf, eof) ==
    LET l == readline(buf, eof) IN
    IF l.st # "ok" THEN l
    ELSE LET num_elements == int(rstrip(l.val)) IN
         IF num_elements.st # "ok"
         THEN Raise(num_elements.val[1], num_elements.val[2], l.rest)
         ELSE read_elements(l.rest, eof, Payload(num_elements.val), <<>>)

\* handle_dict reading one element for each item, not two
handle_dict_half(buf, eof) ==
    LET l == readline(buf, eof) IN
    IF l.st # "ok" THEN l
    ELSE LET num_items == int(rstrip(l.val)) IN
         IF num_items.st # "ok" THEN Raise(num_items.val[1], num_items.val[2], l.rest)
         ELSE LET elements == read_elements(l.rest, eof, Payload(num_items.val), <<>>) IN
              IF elements.st # "ok" THEN elements
              ELSE LET d == DictFromElements(Payload(elements.val), 1, <<>>) IN
                   IF d.st = "ok" THEN Ok(d.val, elements.rest)
                   ELSE Raise(d.val[1], d.val[2], elements.rest)

handle_dict(buf, eof) ==
    LET l == readline(buf, eof) IN
    IF l.st # "ok" THEN l
    ELSE LET num_items == int(rstrip(l.val)) IN
         IF num_items.st # "ok" THEN Raise(num_items.val[1], num_items.val[2], l.rest)
         ELSE LET elements == read_elements(l.rest, eof, Payload(num_items.val) * 2, <<>>) IN
              IF elements.st # "ok" THEN elements
              ELSE LET d == DictFromElements(Payload(elements.val), 1, <<>>) IN
                   IF d.st = "ok" THEN Ok(d.val, elements.rest)
                   ELSE Raise(d.val[1], d.val[2], elements.rest)

BadRequest == <<"b", "a", "d", " ", "r", "e", "q", "u", "e", "s", "t">>

handle_request(buf, eof) ==
    LET first_byte == read(buf, eof, 1) IN
    IF first_byte.st # "ok" THEN first_byte
    ELSE IF first_byte.val = <<>> THEN Raise("Disconnect", Str(<<>>), first_byte.rest)
    ELSE LET b == first_byte.val[1]
             s == first_byte.rest
         IN  CASE b = "+" -> handle_simple_string(s, eof)
               [] b = "-" -> handle_error(s, eof)
               [] b = ":" -> handle_integer(s, eof)
               [] b = "$" -> handle_string(s, eof)
               [] b = "*" -> handle_array(s, eof)
               [] b = "%" -> handle_dict(s, eof)
               [] OTHER -> Raise("CommandError", Str(BadRequest), s)

\* ------------------------------------------------------------- encoding
RECURSIVE _write(_)
RECURSIVE write_items(_, _, _)
RECURSIVE write_pairs(_, _, _)

write_items(items, i, acc) ==
    IF i > Len(items) THEN Ok(acc, <<>>)
    ELSE LET w == _write(items[i]) IN
         IF w.st = "ok" THEN write_items(items, i + 1, acc \o w.val) ELSE w

write_pairs(pairs, i, acc) ==
    IF i > Len(pairs) THEN Ok(acc, <<>>)
    ELSE LET k == _write(pairs[i][1]) IN
         IF k.st # "ok" THEN k
         ELSE LET v == _write(pairs[i][2]) IN
              IF v.st # "ok" THEN v
              ELSE write_pairs(pairs, i + 1, acc \o k.val \o v.val)

\* the bytes _write puts into the buffer, or the exception it raises
_write(data) ==
    LET t == Tag(data) IN
    CASE t \in {"str", "bytes"} ->
            \* str is first encoded as UTF-8; the characters modelled are ASCII
            Ok(<<"$">> \o IntToBytes(Len(Payload(data))) \o CRLF \o Payload(data) \o CRLF, <<>>)
      [] t = "int" -> Ok(<<":">> \o IntToBytes(Payload(data)) \o CRLF, <<>>)
      [] t = "Error" ->
            IF Tag(Payload(data)) = "bytes"
            THEN Ok(<<"-">> \o Payload(Payload(data)) \o CRLF, <<>>)
            ELSE Raise("TypeError", Str(<<"%b requires a bytes-like object">>), <<>>)
      [] t \in {"list", "tuple"} ->
            write_items(Payload(data), 1,
                        <<"*">> \o IntToBytes(Len(Payload(data))) \o CRLF)
      [] t = "dict" ->
            write_pairs(Payload(data), 1,
                        <<"%">> \o IntToBytes(Len(Payload(data))) \o CRLF)
      [] t = "None" -> Ok(<<"$", "-", "1">> \o CRLF, <<>>)
      [] OTHER -> Raise("CommandError", Str(<<"unrecognized type">>), <<>>)

\* ------------------------------------------------------------- commands
Lower == <<"a", "b", "c", "d", "e", "f", "g", "h", "i", "j", "k", "l", "m",
           "n", "o", "p", "q", "r", "s", "t", "u", "v", "w", "x", "y", "z">>
Upper == <<"A", "B", "C", "D", "E", "F", "G", "H", "I", "J", "K", "L", "M",
           "N", "O", "P", "Q", "R", "S", "T", "U", "V", "W", "X", "Y", "Z">>

UpperByte(b) ==
    IF \E i \in 1..26 : Lower[i] = b
    THEN Upper[CHOOSE i \in 1..26 : Lower[i] = b]
    ELSE b

\* bytes.upper()
upper(s) == [i \in 1..Len(s) |-> UpperByte(s[i])]

\* The bytes 0x80..0xff, in order.  A byte below 0x80 is written as its
\* ASCII character; a byte from 0x80 up as the character of that number.
HighBytes == <<"", "", "", "", "", "", "", "", "", "", "", "", "", "", "", "",
               "", "", "", "", "", "", "", "", "", "", "", "", "", "", "", "",
               " ", "¡", "¢", "£", "¤", "¥", "¦", "§", "¨", "©", "ª", "«", "¬", "­", "®", "¯",
               "°", "±", "²", "³", "´", "µ", "¶", "·", "¸", "¹", "º", "»", "¼", "½", "¾", "¿",
               "À", "Á", "Â", "Ã", "Ä", "Å", "Æ", "Ç", "È", "É", "Ê", "Ë", "Ì", "Í", "Î", "Ï",
               "Ð", "Ñ", "Ò", "Ó", "Ô", "Õ", "Ö", "×", "Ø", "Ù", "Ú", "Û", "Ü", "Ý", "Þ", "ß",
               "à", "á", "â", "ã", "ä", "å", "æ", "ç", "è", "é", "ê", "ë", "ì", "í", "î", "ï",
               "ð", "ñ", "ò", "ó", "ô", "õ", "ö", "÷", "ø", "ù", "ú", "û", "ü", "ý", "þ", "ÿ">>

HighSet == {HighBytes[i] : i \in 1..Len(HighBytes)}

IsHigh(b) == b \in HighSet

\* the number of a byte from 0x80 up
ord(b) == 127 + (CHOOSE i \in 1..Len(HighBytes) : HighBytes[i] = b)

\* is s[i] a continuation byte whose number lies in lo..hi
Continues(s, i, lo, hi) == i <= Len(s) /\ IsHigh(s[i]) /\ ord(s[i]) \in lo..hi

\* the strict UTF-8 decoder run over s from position i: does it reach the
\* end of s without meeting an ill-formed sequence
RECURSIVE WellFormed(_, _)
WellFormed(s, i) ==
    IF i > Len(s) THEN TRUE
    ELSE IF ~IsHigh(s[i]) THEN WellFormed(s, i + 1)
    ELSE LET b == ord(s[i])
         IN  CASE b \in 194..223 ->
                    Continues(s, i + 1, 128, 191) /\ WellFormed(s, i + 2)
               [] b \in 224..239 ->
                    /\ Continues(s, i + 1, IF b = 224 THEN 160 ELSE 128,
                                           IF b = 237 THEN 159 ELSE 191)
                    /\ Continues(s, i + 2, 128, 191)
                    /\ WellFormed(s, i + 3)
               [] b \in 240..244 ->
                    /\ Continues(s, i + 1, IF b = 240 THEN 144 ELSE 128,
                                           IF b = 244 THEN 143 ELSE 191)
                    /\ Continues(s, i + 2, 128, 191)
                    /\ Continues(s, i + 3, 128, 191)
                    /\ WellFormed(s, i + 4)
               [] OTHER -> FALSE

CantDecode == <<"'utf-8' codec can't decode byte">>

\* bytes.decode("utf-8").  A str is held as the bytes of its UTF-8 encoding,
\* so a well-formed s decodes to the str with payload s.
decode(s) ==
    IF WellFormed(s, 1) THEN Ok(Str(s), <<>>)
    ELSE Raise("UnicodeDecodeError", Str(CantDecode), <<>>)

\* bytes.split(): the maximal runs of non-whitespace bytes, as a list
RECURSIVE split(_, _, _)
split(s, cur, acc) ==
    IF s = <<>> THEN (IF cur = <<>> THEN acc ELSE Append(acc, Bytes(cur)))
    ELSE IF Head(s) \in Whitespace
         THEN split(Tail(s), <<>>, IF cur = <<>> THEN acc ELSE Append(acc, Bytes(cur)))
    ELSE split(Tail(s), Append(cur, Head(s)), acc)

GET == <<"G", "E", "T">>
SET == <<"S", "E", "T">>
DELETE == <<"D", "E", "L", "E", "T", "E">>
FLUSH == <<"F", "L", "U", "S", "H">>
MGET == <<"M", "G", "E", "T">>
MSET == <<"M", "S", "E", "T">>

\* the keys of the command table
get_commands == {GET, SET, DELETE, FLUSH, MGET, MSET}

MustBeList == <<"Request must be list or simple string.">>
MissingCommand == <<"Missing command">>
Unrecognized(command) == <<"Unrecognized command: ">> \o command
MsetEven == <<"MSET requires an even number of arguments">>

\* does the handler's signature accept n positional arguments
Accepts(command, n) ==
    CASE command \in {GET, DELETE} -> n = 1
      [] command = SET -> n = 2
      [] command = FLUSH -> n = 0
      [] OTHER -> TRUE

\* get_response with mset not checking the number of its arguments
get_response_unchecked(data) ==
    IF Tag(data) # "list" /\ Tag(data) # "bytes"
    THEN Raise("CommandError", Str(MustBeList), <<>>)
    ELSE LET tokens == IF Tag(data) = "list" THEN Payload(data)
                       ELSE split(Payload(data), <<>>, <<>>)
         IN  IF tokens = <<>> THEN Raise("CommandError", Str(MissingCommand), <<>>)
             ELSE IF Tag(tokens[1]) # "bytes"
                  THEN Raise("AttributeError", Str(<<"object has no attribute 'upper'">>), <<>>)
             ELSE LET command == upper(Payload(tokens[1]))
                      args == Tail(tokens)
                  IN  IF decode(command).st = "raise" THEN decode(command)
                      ELSE IF command \notin get_commands
                      THEN Raise("CommandError", Str(Unrecognized(command)), <<>>)
                      ELSE IF ~Accepts(command, Len(args))
                      THEN Raise("TypeError", Str(<<"wrong number of positional arguments">>), <<>>)
                      ELSE Ok(<<command, args>>, <<>>)

\* get_response up to the point where the handler takes the lock: the
\* exception raised there, or <<command, arguments>> of the handler entered.
\* The name decoded at lines 161-162 is held as the bytes of its encoding.
get_response(data) ==
    IF Tag(data) # "list" /\ Tag(data) # "bytes"
    THEN Raise("CommandError", Str(MustBeList), <<>>)
    ELSE LET tokens == IF Tag(data) = "list" THEN Payload(data)
                       ELSE split(Payload(data), <<>>, <<>>)
         IN  IF tokens = <<>> THEN Raise("CommandError", Str(MissingCommand), <<>>)
             ELSE IF Tag(tokens[1]) # "bytes"
                  THEN Raise("AttributeError", Str(<<"object has no attribute 'upper'">>), <<>>)
             ELSE LET command == upper(Payload(tokens[1]))
                      args == Tail(tokens)
                  IN  IF decode(command).st = "raise" THEN decode(command)
                      ELSE IF command \notin get_commands
                      THEN Raise("CommandError", Str(Unrecognized(command)), <<>>)
                      ELSE IF ~Accepts(command, Len(args))
                      THEN Raise("TypeError", Str(<<"wrong number of positional arguments">>), <<>>)
                      ELSE IF command = MSET /\ Len(args) % 2 # 0
                      THEN Raise("CommandError", Str(MsetEven), <<>>)
                      ELSE Ok(<<command, args>>, <<>>)

\* The handler bodies, run with the lock held.  Each gives the store it
\* leaves and what the handler returns or raises.
Done(store, r) == [kv |-> store, res |-> r]
Unhashable == Raise("TypeError", Str(<<"unhashable type">>), <<>>)

get(store, key) ==
    IF ~Hashable(key) THEN Done(store, Unhashable)
    ELSE Done(store, Ok(DictGet(store, key), <<>>))

\* set keeping the value of a key that is present
set_ifabsent(store, key, value) ==
    IF ~Hashable(key) THEN Done(store, Unhashable)
    ELSE IF DictHas(store, key) THEN Done(store, Ok(PyInt(1), <<>>))
    ELSE Done(DictSet(store, key, value), Ok(PyInt(1), <<>>))

set(store, key, value) ==
    IF ~Hashable(key) THEN Done(store, Unhashable)
    ELSE Done(DictSet(store, key, value), Ok(PyInt(1), <<>>))

\* delete emptying the store when the key is present
delete_all(store, key) ==
    IF ~Hashable(key) THEN Done(store, Unhashable)
    ELSE IF DictHas(store, key) THEN Done(<<>>, Ok(PyInt(1), <<>>))
    ELSE Done(store, Ok(PyInt(0), <<>>))

delete(store, key) ==
    IF ~Hashable(key) THEN Done(store, Unhashable)
    ELSE IF DictHas(store, key) THEN Done(DictDel(store, key), Ok(PyInt(1), <<>>))
    ELSE Done(store, Ok(PyInt(0), <<>>))

\* flush counting the entries after clearing the store
flush_cleared(store) == Done(<<>>, Ok(PyInt(Len(<<>>)), <<>>))

flush(store) == Done(<<>>, Ok(PyInt(Len(store)), <<>>))

\* mget giving the lookups in the reverse of the order of the keys
mget_reversed(store, keys) ==
    IF \E i \in 1..Len(keys) : ~Hashable(keys[i]) THEN Done(store, Unhashable)
    ELSE Done(store, Ok(List([i \in 1..Len(keys) |->
                                DictGet(store, keys[Len(keys) + 1 - i])]), <<>>))

mget(store, keys) ==
    IF \E i \in 1..Len(keys) : ~Hashable(keys[i]) THEN Done(store, Unhashable)
    ELSE Done(store, Ok(List([i \in 1..Len(keys) |-> DictGet(store, keys[i])]), <<>>))

\* mset writing every value of the batch to the first key of the batch
mset_pair_first(store, items, i) ==
    IF ~Hashable(items[2 * i - 1]) THEN Done(store, Unhashable)
    ELSE Done(DictSet(store, items[1], items[2 * i]), Ok(None, <<>>))

\* one iteration of the loop of mset: the i-th pair of items
mset_pair(store, items, i) ==
    IF ~Hashable(items[2 * i - 1]) THEN Done(store, Unhashable)
    ELSE Done(DictSet(store, items[2 * i - 1], items[2 * i]), Ok(None, <<>>))

\* ------------------------------------------------------------ the server
\* bound: requests the clients send in one run
MaxMsgs == 3

Conns == {1, 2, 3}

\* the connections whose clients send requests through Client.execute
Clients == {1, 2}

Ka == Bytes(<<"a">>)
Kb == Bytes(<<"b">>)
Vx == Bytes(<<"x">>)
Vy == Bytes(<<"y">>)
Vempty == Bytes(<<>>)

\* Client.execute(*args): the bytes written for one request
execute(args) == _write(Tuple(args)).val

\* requests a Client sends through execute
Commands ==
    { execute(<<Str(SET), Ka, Vx>>),
      execute(<<Str(GET), Ka>>),
      execute(<<Str(DELETE), Ka>>),
      execute(<<Str(FLUSH)>>),
      execute(<<Str(MGET), Ka, Kb>>),
      execute(<<Str(MSET), Ka, Vy, Kb>>),
      execute(<<Str(GET), List(<<>>)>>),
      execute(<<Str(GET)>>) }

\* requests of the other clients, which write to the same keys
Writers ==
    { execute(<<Str(DELETE), Ka>>),
      execute(<<Str(MSET), Ka, Vy, Kb, Vx>>) }

Menu(c) == IF c = 1 THEN Commands ELSE Writers

VARIABLES
    inbuf,    \* per connection: bytes received and not yet read by the server
    eof,      \* per connection: the client has closed its end
    aborted,  \* per connection: the socket is reset, or a reset is on its way
    pc,       \* per connection: where connection_handler is
    data,     \* per connection: the request decoded (local of connection_handler)
    idx,      \* per connection: the pair mset's loop is at
    resp,     \* per connection: the reply to write (local of connection_handler)
    out,      \* per connection: the replies written, each with its request
    kv,       \* Server._kv
    lock,     \* Server._lock, the counter of the semaphore
    sent,     \* requests sent so far
    decoded,  \* per connection: requests decoded so far
    wclock,   \* writes applied to the store so far
    lastw,    \* per key: the number of the last write to it since the last flush
    seen,     \* per connection: lastw of the key its handler read or wrote
    vals,     \* codec on its own: the objects to encode, in order
    nenc,     \* codec on its own: how many of vals are encoded
    stream,   \* codec on its own: the bytes encoded and not yet decoded
    got       \* codec on its own: what each decode call gave

codec == <<vals, nenc, stream, got>>

vars == <<inbuf, eof, aborted, pc, data, idx, resp, out, kv, lock, sent, decoded, wclock, lastw, seen,
          codec>>

\* a reply written for a decode-phase exception has no request
NoRequest == <<"NoRequest", 0>>

ServerInit ==
    /\ inbuf = [c \in Conns |-> <<>>]
    /\ eof = [c \in Conns |-> FALSE]
    /\ aborted = [c \in Conns |-> FALSE]
    /\ pc = [c \in Conns |-> "AWAITING_REQUEST"]
    /\ data = [c \in Conns |-> None]
    /\ idx = [c \in Conns |-> 0]
    /\ resp = [c \in Conns |-> None]
    /\ out = [c \in Conns |-> <<>>]
    /\ kv = <<>>
    /\ lock = 1
    /\ sent = 0
    /\ decoded = [c \in Conns |-> 0]
    /\ wclock = 0
    /\ lastw = <<>>
    /\ seen = [c \in Conns |-> 0]

Init ==
    /\ ServerInit
    /\ vals = <<>>
    /\ nenc = 0
    /\ stream = <<>>
    /\ got = <<>>

Running(c) == pc[c] \notin {"CLOSED", "FAILED"}

server == <<pc, data, idx, resp, out, kv, lock, decoded, wclock, lastw, seen>>

\* Client.execute: one request is written, and only once the reply to the
\* previous one has been read
ClientSend(c, m) ==
    /\ sent < MaxMsgs
    /\ ~eof[c]
    /\ pc[c] = "AWAITING_REQUEST"
    /\ inbuf[c] = <<>>
    /\ inbuf' = [inbuf EXCEPT ![c] = m]
    /\ sent' = sent + 1
    /\ UNCHANGED <<eof, aborted, server, codec>>

\* The client's end is closed: the loop of repl.main is left by exit or quit,
\* or by KeyboardInterrupt, which may come while Client.execute waits for the
\* reply.  The request written stays to be read.  A close that leaves a reply
\* unread resets the connection; that can be only once a reply is written and
\* the server has nothing more to answer.
ClientClose(c) ==
    /\ ~eof[c]
    /\ eof' = [eof EXCEPT ![c] = TRUE]
    /\ \E unread \in IF pc[c] = "AWAITING_REQUEST" /\ inbuf[c] = <<>> /\ out[c] # <<>>
                     THEN BOOLEAN ELSE {FALSE} :
          aborted' = [aborted EXCEPT ![c] = unread]
    /\ UNCHANGED <<inbuf, sent, server, codec>>

\* an entry of out: the reply bytes, the request answered, and for the store
\* the write the handler saw last on the key it read or wrote
Reply(req, bytes, w) == [req |-> req, reply |-> bytes, seen |-> w]

ConnectionReset == <<"[Errno 104] Connection reset by peer">>

\* the socket of c may be reset: the client closed it abortively or with
\* replies unread, or a reply was written to it after the client closed
Broken(c) == aborted[c]

\* what handle_request gives on the socket of c: what it decodes from the
\* bytes received, or, on a socket that may be reset, ConnectionResetError
\* from the read that finds no more bytes
Received(c) ==
    {handle_request(inbuf[c], eof[c])}
        \cup IF Broken(c) /\ handle_request(inbuf[c], FALSE).st = "block"
             THEN {Raise("ConnectionResetError", Str(ConnectionReset), <<>>)}
             ELSE {}

\* Decode without the except clause for Disconnect: it is handled as any
\* other exception of the decode
Decode_nodisconnect(c) ==
    /\ pc[c] = "AWAITING_REQUEST"
    /\ \E r \in Received(c) :
       /\ r.st # "block"
       /\ inbuf' = [inbuf EXCEPT ![c] = r.rest]
       /\ IF r.st = "ok"
          THEN /\ data' = [data EXCEPT ![c] = r.val]
               /\ pc' = [pc EXCEPT ![c] = "DISPATCH"]
               /\ decoded' = [decoded EXCEPT ![c] = @ + 1]
               /\ out' = out
          ELSE LET w == _write(Error(r.val[2])) IN
               /\ IF w.st = "ok"
                  THEN /\ out' = [out EXCEPT ![c] = Append(@, Reply(NoRequest, w.val, 0))]
                       /\ pc' = pc
                  ELSE /\ pc' = [pc EXCEPT ![c] = "FAILED"]
                       /\ out' = out
               /\ UNCHANGED <<data, decoded>>
    /\ UNCHANGED <<eof, aborted, idx, resp, kv, lock, sent, wclock, lastw, seen, codec>>

\* connection_handler, lines 131-139: decode one request
Decode(c) ==
    /\ pc[c] = "AWAITING_REQUEST"
    /\ \E r \in Received(c) :
       /\ r.st # "block"
       /\ inbuf' = [inbuf EXCEPT ![c] = r.rest]
       /\ IF r.st = "ok"
          THEN /\ data' = [data EXCEPT ![c] = r.val]
               /\ pc' = [pc EXCEPT ![c] = "DISPATCH"]
               /\ decoded' = [decoded EXCEPT ![c] = @ + 1]
               /\ out' = out
          ELSE IF r.val[1] = "Disconnect"
          THEN /\ pc' = [pc EXCEPT ![c] = "CLOSED"]
               /\ UNCHANGED <<data, decoded, out>>
          ELSE LET w == _write(Error(r.val[2])) IN
               /\ IF w.st = "ok"
                  THEN /\ out' = [out EXCEPT ![c] = Append(@, Reply(NoRequest, w.val, 0))]
                       /\ pc' = pc
                  ELSE /\ pc' = [pc EXCEPT ![c] = "FAILED"]
                       /\ out' = out
               /\ UNCHANGED <<data, decoded>>
    /\ UNCHANGED <<eof, aborted, idx, resp, kv, lock, sent, wclock, lastw, seen, codec>>

\* connection_handler, lines 141-144, when get_response raises before any
\* handler body runs
Dispatch(c) ==
    /\ pc[c] = "DISPATCH"
    /\ LET g == get_response(data[c]) IN
       /\ g.st = "raise"
       /\ IF g.val[1] = "CommandError"
          THEN /\ resp' = [resp EXCEPT ![c] = Error(g.val[2])]
               /\ pc' = [pc EXCEPT ![c] = "ENCODE_REPLY"]
          ELSE /\ pc' = [pc EXCEPT ![c] = "FAILED"]
               /\ resp' = resp
    /\ UNCHANGED <<inbuf, eof, aborted, data, idx, out, kv, lock, sent, decoded, wclock, lastw, seen, codec>>

\* Semaphore.acquire at "with self._lock": waits while the counter is 0
acquire(c) ==
    /\ pc[c] = "DISPATCH"
    /\ get_response(data[c]).st = "ok"
    /\ lock > 0
    /\ lock' = lock - 1
    /\ pc' = [pc EXCEPT ![c] = "LOCKED"]
    /\ idx' = [idx EXCEPT ![c] = 1]
    /\ UNCHANGED <<inbuf, eof, aborted, data, resp, out, kv, sent, decoded, wclock, lastw, seen, codec>>

\* the handler entered for the request of c, and its arguments
Command(c) == get_response(data[c]).val[1]
Args(c) == get_response(data[c]).val[2]

LastWrite(k) == IF DictHas(lastw, k) THEN DictGet(lastw, k) ELSE 0

\* the body of get, set, delete, flush or mget under "with self._lock"
run(store, command, args) ==
    CASE command = GET -> get(store, args[1])
      [] command = SET -> set(store, args[1], args[2])
      [] command = DELETE -> delete(store, args[1])
      [] command = FLUSH -> flush(store)
      [] OTHER -> mget(store, args)

\* leaving the handler body with the lock released only on a normal return
Leave_held(c, r) ==
    /\ idx' = [idx EXCEPT ![c] = 0]
    /\ IF r.st = "ok"
       THEN /\ lock' = lock + 1
            /\ resp' = [resp EXCEPT ![c] = r.val]
            /\ pc' = [pc EXCEPT ![c] = "ENCODE_REPLY"]
       ELSE /\ lock' = lock
            /\ resp' = resp
            /\ pc' = [pc EXCEPT ![c] = "FAILED"]

\* leaving "with self._lock" with the handler's result or exception
Leave(c, r) ==
    /\ lock' = lock + 1
    /\ idx' = [idx EXCEPT ![c] = 0]
    /\ IF r.st = "ok"
       THEN /\ resp' = [resp EXCEPT ![c] = r.val]
            /\ pc' = [pc EXCEPT ![c] = "ENCODE_REPLY"]
       ELSE /\ resp' = resp
            /\ pc' = [pc EXCEPT ![c] = "FAILED"]

\* get, set, delete, flush, mget: the whole body runs with the lock held
Body(c) ==
    /\ pc[c] = "LOCKED"
    /\ Command(c) # MSET
    /\ LET d == run(kv, Command(c), Args(c))
           k == IF Args(c) = <<>> THEN None ELSE Args(c)[1]
           writes == d.res.st = "ok" /\ Command(c) \in {SET, DELETE}
       IN  /\ kv' = d.kv
           /\ Leave(c, d.res)
           /\ wclock' = IF writes \/ Command(c) = FLUSH THEN wclock + 1 ELSE wclock
           /\ lastw' = IF Command(c) = FLUSH THEN <<>>
                       ELSE IF writes THEN DictSet(lastw, k, wclock + 1)
                       ELSE lastw
           /\ seen' = [seen EXCEPT ![c] =
                         IF writes THEN wclock + 1
                         ELSE IF Command(c) = GET /\ d.res.st = "ok" THEN LastWrite(k)
                         ELSE 0]
    /\ UNCHANGED <<inbuf, eof, aborted, data, out, sent, decoded, codec>>

\* mset, lines 200-201: one iteration of the loop, with the lock held
mset_step(c) ==
    /\ pc[c] = "LOCKED"
    /\ Command(c) = MSET
    /\ 2 * idx[c] <= Len(Args(c))
    /\ LET d == mset_pair(kv, Args(c), idx[c]) IN
       /\ kv' = d.kv
       /\ IF d.res.st = "ok"
          THEN /\ idx' = [idx EXCEPT ![c] = @ + 1]
               /\ wclock' = wclock + 1
               /\ lastw' = DictSet(lastw, Args(c)[2 * idx[c] - 1], wclock + 1)
               /\ UNCHANGED <<lock, resp, pc>>
          ELSE /\ Leave(c, d.res)
               /\ UNCHANGED <<wclock, lastw>>
    /\ UNCHANGED <<inbuf, eof, aborted, data, out, sent, decoded, seen, codec>>

\* mset returning with the lock still held
mset_return_locked(c) ==
    /\ pc[c] = "LOCKED"
    /\ Command(c) = MSET
    /\ 2 * idx[c] > Len(Args(c))
    /\ idx' = [idx EXCEPT ![c] = 0]
    /\ resp' = [resp EXCEPT ![c] = PyInt(Len(Args(c)) \div 2)]
    /\ pc' = [pc EXCEPT ![c] = "ENCODE_REPLY"]
    /\ UNCHANGED <<inbuf, eof, aborted, data, out, kv, lock, sent, decoded, wclock, lastw, seen, codec>>

\* mset, line 202: the loop is over, the lock is released
mset_return(c) ==
    /\ pc[c] = "LOCKED"
    /\ Command(c) = MSET
    /\ 2 * idx[c] > Len(Args(c))
    /\ Leave(c, Ok(PyInt(Len(Args(c)) \div 2), <<>>))
    /\ UNCHANGED <<inbuf, eof, aborted, data, out, kv, sent, decoded, wclock, lastw, seen, codec>>

\* connection_handler, line 145: write the reply
write_response(c) ==
    /\ pc[c] = "ENCODE_REPLY"
    /\ LET w == _write(resp[c]) IN
       IF w.st = "ok"
       THEN \* the bytes are taken; written to a client that has closed, they
            \* are answered by a reset
            \/ /\ out' = [out EXCEPT ![c] = Append(@, Reply(data[c], w.val, seen[c]))]
               /\ pc' = [pc EXCEPT ![c] = "AWAITING_REQUEST"]
               /\ data' = [data EXCEPT ![c] = None]
               /\ resp' = [resp EXCEPT ![c] = None]
               /\ seen' = [seen EXCEPT ![c] = 0]
               /\ aborted' = [aborted EXCEPT ![c] = @ \/ eof[c]]
            \* lines 76-77 on a socket that may be reset: BrokenPipeError or
            \* ConnectionResetError from the write
            \/ /\ Broken(c)
               /\ out' = out
               /\ pc' = [pc EXCEPT ![c] = "FAILED"]
               /\ UNCHANGED <<data, resp, seen, aborted>>
       ELSE /\ out' = out
            /\ pc' = [pc EXCEPT ![c] = "FAILED"]
            /\ UNCHANGED <<data, resp, seen, aborted>>
    /\ UNCHANGED <<inbuf, eof, idx, kv, lock, sent, decoded, wclock, lastw, codec>>

Serve(c) ==
    \/ Decode(c)
    \/ Dispatch(c)
    \/ acquire(c)
    \/ Body(c)
    \/ mset_step(c)
    \/ mset_return(c)
    \/ write_response(c)

Next ==
    \/ \E c \in Clients : \E m \in Menu(c) : ClientSend(c, m)
    \/ \E c \in Clients : ClientClose(c)
    \/ \E c \in Conns : Serve(c)

Spec == Init /\ [][Next]_vars

\* ------------------------------------------------- clients writing raw bytes
\* what a client that does not go through Client.execute may write
RawRequests ==
    { <<"x">>,
      <<":", "a", CR, LF>>,
      <<":", "5", CR, LF>>,
      <<"*", "0", CR, LF>>,
      <<"*", "1", CR, LF, ":", "5", CR, LF>>,
      <<"$", "-", "1", CR, LF>>,
      <<"%", "0", CR, LF>>,
      <<"-", "e", CR, LF>>,
      <<"+", "g", "e", "t", VT, "a", CR, LF>>,
      <<"$", "5", CR, LF>> \o FLUSH \o CRLF,
      <<"$", "3", CR, LF, "a">>,
      <<"+", "m", "s", "e", "t", " ", "a", " ", "x", CR, LF>>,
      execute(<<Str(<<"F", "O", "O">>)>>),
      execute(<<Bytes(<<HighBytes[128]>>)>>),
      execute(<<Str(SET), Ka, Error(Bytes(<<"e">>))>>),
      execute(<<Str(SET), Ka, None>>),
      execute(<<Str(SET), Ka, Vx>>),
      execute(<<Str(SET), Ka, Vempty>>),
      execute(<<Str(GET), Ka>>) }

RawClients == {1}

\* bytes arrive on the connection, whatever the server is doing
ClientWrite(c, m) ==
    /\ sent < MaxMsgs
    /\ ~eof[c]
    /\ Running(c)
    /\ inbuf' = [inbuf EXCEPT ![c] = @ \o m]
    /\ sent' = sent + 1
    /\ UNCHANGED <<eof, aborted, server, codec>>

\* A peer closes the connection at any point, by close() or abortively
\* (SO_LINGER 0), whatever it has read of the replies: a reset may follow.
\* What the server can meet on a socket that may be reset includes all it
\* meets on one closed in order.
ClientAbort(c) ==
    /\ ~eof[c]
    /\ eof' = [eof EXCEPT ![c] = TRUE]
    /\ aborted' = [aborted EXCEPT ![c] = TRUE]
    /\ UNCHANGED <<inbuf, sent, server, codec>>

NextRaw ==
    \/ \E c \in RawClients : \E m \in RawRequests : ClientWrite(c, m)
    \/ \E c \in RawClients : ClientAbort(c)
    \/ \E c \in Conns : Serve(c)

SpecRaw == Init /\ [][NextRaw]_vars

\* ------------------------------------- clients writing disjoint MSET batches
\* the keys of connection c: no two connections share one
OwnKey(c, j) == Bytes(<<Lower[c], Digits[j + 1]>>)

Batches(c) ==
    { execute(<<Str(MSET), OwnKey(c, 1), Vx, OwnKey(c, 2), Vy>>),
      execute(<<Str(MSET), OwnKey(c, 2), Vx>>),
      execute(<<Str(MSET), OwnKey(c, 1), Vy, OwnKey(c, 1), Vx>>) }

\* no request of Batches makes get_response raise, and none runs another handler
NextDisjoint ==
    \/ \E c \in Conns : \E m \in Batches(c) : ClientSend(c, m)
    \/ \E c \in Conns : Decode(c)
    \/ \E c \in Conns : acquire(c)
    \/ \E c \in Conns : mset_step(c)
    \/ \E c \in Conns : mset_return(c)
    \/ \E c \in Conns : write_response(c)

SpecDisjoint == Init /\ [][NextDisjoint]_vars

\* ------------------------------------------------ a client that stalls
\* the connection whose client sends the start of a request and then nothing
Staller == 3

\* a bulk string of 3 bytes of which 1 has arrived
Partial == <<"$", "3", CR, LF, "a">>

\* requests of the clients that go on
StallMenu ==
    { execute(<<Str(SET), Ka, Vy>>),
      execute(<<Str(MSET), Ka, Vy, Kb, Vx>>),
      execute(<<Str(MSET), Ka, Vy, Kb>>) }

\* bound: requests and starts of requests sent in one run with a stalled client
MaxStall == 2

NextStall ==
    \/ sent < MaxStall /\ inbuf[Staller] = <<>> /\ ClientWrite(Staller, Partial)
    \/ \E c \in Clients : \E m \in StallMenu : sent < MaxStall /\ ClientSend(c, m)
    \/ \E c \in Conns : Serve(c)

\* connection_handler, lines 141-145: what it does with a decoded request
Respond(c) ==
    \/ Dispatch(c)
    \/ acquire(c)
    \/ Body(c)
    \/ mset_step(c)
    \/ mset_return(c)
    \/ write_response(c)

\* a handler that has a request and can go on with it does go on: gevent
\* runs each greenlet that is ready
SpecStall == Init /\ [][NextStall]_vars /\ \A c \in Conns : WF_vars(Respond(c))

\* ------------------------------------------------------ the codec on its own
\* bound: objects written to one stream
MaxVals == 2

Values ==
    { Bytes(<<>>), Ka, Bytes(<<"a", CR, LF>>), Str(GET),
      PyInt(0), PyInt(-12), PyInt(105),
      None,
      Error(Bytes(<<"e">>)), Error(Bytes(<<>>)), Error(Bytes(<<"a", CR, "b">>)),
      Error(Bytes(<<"e", CR>>)), Error(Bytes(<<"a", LF, "b">>)),
      List(<<>>), List(<<Ka, None>>), Tuple(<<Str(GET), Ka>>),
      List(<<List(<<PyInt(1)>>)>>), List(<<Error(Bytes(<<"e", CR>>))>>),
      Dict(<<>>), Dict(<<<<Ka, Vx>>, <<PyInt(1), List(<<>>)>>>>),
      Dict(<<<<None, Dict(<<>>)>>>>), Dict(<<<<Error(Bytes(<<"e">>)), None>>>>),
      Dict(<<<<Tuple(<<Ka>>), Vx>>>>), Dict(<<<<Str(<<"a">>), Vx>>, <<Ka, Vy>>>>) }

InitCodec ==
    /\ ServerInit
    /\ vals \in UNION {[1..n -> Values] : n \in 1..MaxVals}
    /\ nenc = 0
    /\ stream = <<>>
    /\ got = <<>>

\* write_response, lines 72-77: the next object is encoded onto the stream
encode_step ==
    /\ nenc < Len(vals)
    /\ LET w == _write(vals[nenc + 1]) IN
       IF w.st = "ok"
       THEN /\ stream' = stream \o w.val
            /\ got' = got
       ELSE /\ stream' = stream
            /\ got' = Append(got, w)
    /\ nenc' = nenc + 1
    /\ UNCHANGED <<vals, inbuf, eof, aborted, sent, server>>

\* handle_request on the stream, everything written being there to read
decode_step ==
    /\ nenc = Len(vals)
    /\ Len(got) < Len(vals)
    /\ LET r == handle_request(stream, TRUE) IN
       /\ got' = Append(got, r)
       /\ stream' = r.rest
    /\ UNCHANGED <<vals, nenc, inbuf, eof, aborted, sent, server>>

NextCodec == encode_step \/ decode_step

SpecCodec == InitCodec /\ [][NextCodec]_vars

\* ------------------------------------------------------------- the claims
\* the tokens of a request, as get_response takes them
Tokens(req) ==
    IF Tag(req) = "list" THEN Payload(req)
    ELSE IF Tag(req) = "bytes" THEN split(Payload(req), <<>>, <<>>)
    ELSE <<>>

\* the request names this command, in any case of letters
Names(req, command) ==
    /\ Tokens(req) # <<>>
    /\ Tag(Tokens(req)[1]) = "bytes"
    /\ upper(Payload(Tokens(req)[1])) = command

ReqArgs(req) == Tail(Tokens(req))

\* what the client reads back from the bytes of a reply (Client.execute)
ReadReply(bytes) == handle_request(bytes, TRUE).val

IsErrorReply(bytes) == Tag(ReadReply(bytes)) = "Error"

\* the replies written on c that answer a decoded request
Answered(c) == Cardinality({i \in 1..Len(out[c]) : out[c][i].req # NoRequest})

\* C1: between two requests, and when the handler has ended, every request
\* decoded on a connection has had exactly one reply written on it.
OneReplyPerRequest ==
    \A c \in Conns :
        pc[c] \in {"AWAITING_REQUEST", "CLOSED", "FAILED"} => Answered(c) = decoded[c]

DecodeFails(c) ==
    /\ pc[c] = "AWAITING_REQUEST"
    /\ handle_request(inbuf[c], eof[c]).st = "raise"
    /\ handle_request(inbuf[c], eof[c]).val[1] # "Disconnect"

\* the step of c wrote exactly one reply, an Error, and c awaits the next request
WroteErrorReply(c) ==
    /\ pc'[c] = "AWAITING_REQUEST"
    /\ Len(out'[c]) = Len(out[c]) + 1
    /\ SubSeq(out'[c], 1, Len(out[c])) = out[c]
    /\ IsErrorReply(out'[c][Len(out'[c])].reply)

\* C2: a decode that raises anything but Disconnect is answered with an Error
\* reply, and the handler goes back to awaiting the next request.
DecodeErrorAnswered ==
    [][\A c \in Conns : (DecodeFails(c) /\ Decode(c)) => WroteErrorReply(c)]_vars

RaisesCommandError(req) ==
    /\ get_response(req).st = "raise"
    /\ get_response(req).val[1] = "CommandError"

\* C3: a CommandError raised in dispatching a request becomes an Error reply
\* that is written, and the handler goes on with the next request.
CommandErrorAnswered ==
    [][\A c \in Conns :
         (pc[c] = "ENCODE_REPLY" /\ RaisesCommandError(data[c]) /\ pc'[c] # pc[c])
             => WroteErrorReply(c)]_vars

KnownCommand(req) == \E command \in get_commands : Names(req, command)

\* a known command with a number of arguments its handler does not take, or
\* with a key that cannot be one
BadArguments(req) ==
    /\ KnownCommand(req)
    /\ \/ \E command \in get_commands :
            Names(req, command) /\ ~Accepts(command, Len(ReqArgs(req)))
       \/ /\ \E command \in {GET, SET, DELETE} : Names(req, command)
          /\ ReqArgs(req) # <<>>
          /\ ~Hashable(ReqArgs(req)[1])

\* C4: a request for a known command with the wrong number of arguments or an
\* unusable key never ends the handler, and what is written for it is one
\* Error reply, after which the handler awaits the next request.
BadArgumentsAnswered ==
    [][\A c \in Conns :
         (BadArguments(data[c]) /\ pc'[c] # pc[c])
             => /\ pc'[c] # "FAILED"
                /\ pc[c] = "ENCODE_REPLY" => WroteErrorReply(c)]_vars

TagBytes == {"+", "-", ":", "$", "*", "%"}

RECURSIVE Contains(_, _)
Contains(s, sub) ==
    IF Len(s) < Len(sub) THEN FALSE
    ELSE IF SubSeq(s, 1, Len(sub)) = sub THEN TRUE
    ELSE Contains(Tail(s), sub)

\* C5: a request that starts with a byte that is no tag is answered with an
\* Error reply containing "bad request", only that byte being consumed; and a
\* well-formed SET or GET decoded next on the connection is answered with a
\* reply that is no Error.
BadTagAnswered ==
    /\ [][\A c \in Conns :
            (/\ pc[c] = "AWAITING_REQUEST"
             /\ inbuf[c] # <<>>
             /\ Head(inbuf[c]) \notin TagBytes
             /\ Decode(c))
                => /\ WroteErrorReply(c)
                   /\ inbuf'[c] = Tail(inbuf[c])
                   /\ Contains(out'[c][Len(out'[c])].reply, BadRequest)]_vars
    /\ [](\A c \in Conns : \A i \in 1..Len(out[c]) :
            (/\ i > 1
             /\ out[c][i - 1].req = NoRequest
             /\ get_response(out[c][i].req).st = "ok"
             /\ \/ Names(out[c][i].req, GET) /\ Tag(out[c][i].req[2][3]) = "bytes"
                \/ Names(out[c][i].req, SET))
                => ~IsErrorReply(out[c][i].reply))

\* what an object is on the wire: str is written as its bytes, a tuple as a list
RECURSIVE Content(_)
Content(v) ==
    CASE Tag(v) = "str" -> Bytes(Payload(v))
      [] Tag(v) \in {"list", "tuple"} ->
            List([i \in 1..Len(Payload(v)) |-> Content(Payload(v)[i])])
      [] Tag(v) = "dict" ->
            Dict([i \in 1..Len(Payload(v)) |->
                    <<Content(Payload(v)[i][1]), Content(Payload(v)[i][2])>>])
      [] OTHER -> v

\* every Error message in v has no LF and does not end with CR, and the keys
\* of every mapping in v are no sequences and differ as content
RECURSIVE Clean(_)
Clean(v) ==
    CASE Tag(v) = "Error" ->
            /\ \A i \in 1..Len(Payload(Payload(v))) : Payload(Payload(v))[i] # LF
            /\ Payload(Payload(v)) = rstrip(Payload(Payload(v)))
      [] Tag(v) \in {"list", "tuple"} ->
            \A i \in 1..Len(Payload(v)) : Clean(Payload(v)[i])
      [] Tag(v) = "dict" ->
            /\ \A i \in 1..Len(Payload(v)) :
                  /\ Clean(Payload(v)[i][1])
                  /\ Clean(Payload(v)[i][2])
                  /\ Hashable(Content(Payload(v)[i][1]))
            /\ \A i, j \in 1..Len(Payload(v)) :
                  i # j => Content(Payload(v)[i][1]) # Content(Payload(v)[j][1])
      [] OTHER -> TRUE

Decoded(i) == Len(got) >= i /\ nenc = Len(vals)

\* C6 as stated: decoding the encoding of any object gives back its content.
RoundTripAll ==
    Decoded(1) => (got[1].st = "ok" /\ got[1].val = Content(vals[1]))

\* C6 amended: decoding the encoding of an object gives back its content when
\* no Error message in it has an LF or ends with CR, and no mapping in it has a
\* sequence as a key or two keys of the same content.
RoundTripClean ==
    (Decoded(1) /\ Clean(vals[1])) => (got[1].st = "ok" /\ got[1].val = Content(vals[1]))

RoundTripSeen ==
    /\ Decoded(1)
    /\ vals[1] = Dict(<<<<Ka, Vx>>, <<PyInt(1), List(<<>>)>>>>)
    /\ got[1].val = vals[1]
    /\ got[1].rest = <<>>

OddMset(req) == Names(req, MSET) /\ Len(ReqArgs(req)) % 2 = 1

\* C7: no step the handler takes for an MSET with an odd number of arguments
\* changes the store, and its dispatch ends in the CommandError of mset.
MsetOddRaises ==
    [][\A c \in Conns :
         (OddMset(data[c]) /\ pc'[c] # pc[c])
             => /\ kv' = kv
                /\ pc[c] = "DISPATCH"
                      => (pc'[c] = "ENCODE_REPLY" /\ resp'[c] = Error(Str(MsetEven)))]_vars

MsetOddSeen ==
    \E c \in Conns :
        /\ OddMset(data[c])
        /\ pc[c] = "ENCODE_REPLY"
        /\ resp[c] = Error(Str(MsetEven))
        /\ kv # <<>>

Idle(c) == pc[c] = "AWAITING_REQUEST" /\ inbuf[c] = <<>>

\* the pairs of one batch applied in order to a mapping
RECURSIVE ApplyPairs(_, _, _)
ApplyPairs(m, items, i) ==
    IF 2 * i > Len(items) THEN m
    ELSE ApplyPairs(DictSet(m, items[2 * i - 1], items[2 * i]), items, i + 1)

\* what the batches answered on c have set, one batch after the other
RECURSIVE Batched(_, _)
Batched(c, n) ==
    IF n = 0 THEN <<>>
    ELSE ApplyPairs(Batched(c, n - 1), ReqArgs(out[c][n].req), 1)

RECURSIVE KeysSet(_)
KeysSet(cs) ==
    IF cs = {} THEN 0
    ELSE LET c == CHOOSE x \in cs : TRUE IN
         Len(Batched(c, Len(out[c]))) + KeysSet(cs \ {c})

\* C8: whenever a connection has had all its batches answered, each of its keys
\* holds the value it set last, whatever the other connections are doing; and
\* when all have, the store has as many keys as they set between them.
DisjointBatchesKept ==
    /\ \A c \in Conns :
          Idle(c) => \A i \in 1..Len(Batched(c, Len(out[c]))) :
                        LET p == Batched(c, Len(out[c]))[i] IN
                        DictHas(kv, p[1]) /\ DictGet(kv, p[1]) = p[2]
    /\ (\A c \in Conns : Idle(c)) => Len(kv) = KeysSet(Conns)

DisjointBatchesSeen ==
    /\ \A c \in Conns : Idle(c) /\ Len(out[c]) = 1
    /\ Len(kv) >= 4

Holders == {c \in Conns : pc[c] = "LOCKED"}

\* C9: the lock is held by at most one connection, and by none unless one is
\* inside a handler body, also after a body has raised; and a step that
\* changes the store, or that takes a handler's result, is a step of the holder.
LockDiscipline ==
    /\ [](lock \in {0, 1} /\ Cardinality(Holders) = 1 - lock)
    /\ [][/\ kv' # kv => \E c \in Holders : pc'[c] # pc[c] \/ idx'[c] # idx[c]
          /\ \A c \in Conns :
                (pc[c] # "ENCODE_REPLY" /\ pc'[c] = "ENCODE_REPLY"
                    /\ ~RaisesCommandError(data[c])) => c \in Holders]_vars

LockReleasedSeen ==
    \E c, d \in Conns :
        /\ pc[c] = "FAILED"
        /\ get_response(data[c]).st = "ok"
        /\ pc[d] = "LOCKED"

\* the request is Array[SET, k, v] with bulk strings k and v
IsSet(req) ==
    /\ Tag(req) = "list"
    /\ Names(req, SET)
    /\ Len(ReqArgs(req)) = 2
    /\ Tag(ReqArgs(req)[1]) = "bytes"
    /\ Tag(ReqArgs(req)[2]) = "bytes"

\* the request is Array[GET, k] with a bulk string k
IsGet(req) ==
    /\ Tag(req) = "list"
    /\ Names(req, GET)
    /\ Len(ReqArgs(req)) = 1
    /\ Tag(ReqArgs(req)[1]) = "bytes"

\* C10: Array[SET, k, v] and Array[GET, k] never end the handler; the reply to
\* Array[SET, k, v] reads as Integer 1, and the reply to an Array[GET, k] that
\* found this SET to be the last write to k reads as the bulk string v.
SetThenGet ==
    /\ \A c \in Conns : (IsSet(data[c]) \/ IsGet(data[c])) => pc[c] # "FAILED"
    /\ \A c \in Conns : \A i \in 1..Len(out[c]) :
        IsSet(out[c][i].req) =>
            /\ ReadReply(out[c][i].reply) = PyInt(1)
            /\ \A d \in Conns : \A j \in 1..Len(out[d]) :
                  (/\ IsGet(out[d][j].req)
                   /\ ReqArgs(out[d][j].req)[1] = ReqArgs(out[c][i].req)[1]
                   /\ out[d][j].seen = out[c][i].seen)
                      => ReadReply(out[d][j].reply) = ReqArgs(out[c][i].req)[2]

SetThenGetSeen ==
    \E c \in Conns : \E i, j \in 1..Len(out[c]) :
        /\ i < j
        /\ IsSet(out[c][i].req)
        /\ IsGet(out[c][j].req)
        /\ ReqArgs(out[c][j].req)[1] = ReqArgs(out[c][i].req)[1]
        /\ out[c][j].seen = out[c][i].seen
        /\ ReadReply(out[c][j].reply) = Vx

\* the step is the body of this command's handler run by c
Runs(c, command) ==
    /\ pc[c] = "LOCKED"
    /\ Command(c) = command
    /\ pc'[c] # pc[c]

\* the request is Array[DELETE, k] with a bulk string k
IsDelete(req) ==
    /\ Tag(req) = "list"
    /\ Names(req, DELETE)
    /\ Len(ReqArgs(req)) = 1
    /\ Tag(ReqArgs(req)[1]) = "bytes"

\* C11: DELETE of a key that is absent returns 0 and leaves the store as it
\* is; DELETE of a key that is present returns 1 and removes that key and no
\* other; and the reply to an Array[GET, k] that found this DELETE to be the
\* last write to k reads as null.
DeleteContract ==
    /\ [][\A c \in Conns :
            (Runs(c, DELETE) /\ Hashable(Args(c)[1])) =>
                LET k == Args(c)[1] IN
                /\ pc'[c] = "ENCODE_REPLY"
                /\ IF DictHas(kv, k)
                   THEN /\ resp'[c] = PyInt(1)
                        /\ ~DictHas(kv', k)
                        /\ Len(kv') = Len(kv) - 1
                        /\ \A i \in 1..Len(kv) :
                              kv[i][1] # k => /\ DictHas(kv', kv[i][1])
                                              /\ DictGet(kv', kv[i][1]) = kv[i][2]
                   ELSE /\ resp'[c] = PyInt(0)
                        /\ kv' = kv]_vars
    /\ [](\A c \in Conns : \A i \in 1..Len(out[c]) :
            IsDelete(out[c][i].req) =>
                /\ ReadReply(out[c][i].reply) \in {PyInt(0), PyInt(1)}
                /\ \A d \in Conns : \A j \in 1..Len(out[d]) :
                      (/\ IsGet(out[d][j].req)
                       /\ ReqArgs(out[d][j].req)[1] = ReqArgs(out[c][i].req)[1]
                       /\ out[d][j].seen = out[c][i].seen)
                          => ReadReply(out[d][j].reply) = None)

DeleteSeen ==
    \E c \in Conns : \E i, j \in 1..Len(out[c]) :
        /\ i < j
        /\ IsDelete(out[c][i].req)
        /\ ReadReply(out[c][i].reply) = PyInt(1)
        /\ IsGet(out[c][j].req)
        /\ ReqArgs(out[c][j].req)[1] = ReqArgs(out[c][i].req)[1]
        /\ out[c][j].seen = out[c][i].seen
        /\ ReadReply(out[c][j].reply) = None
        /\ DictHas(kv, Kb)

\* the last reply written on c, as the client reads it
LastReply(c) == ReadReply(out'[c][Len(out'[c])].reply)

\* the step of c writes the reply to its request
Writes(c) ==
    /\ pc[c] = "ENCODE_REPLY"
    /\ pc'[c] = "AWAITING_REQUEST"
    /\ Len(out'[c]) = Len(out[c]) + 1

\* C12: FLUSH returns the number of entries the store holds when its body
\* runs, 0 for an empty store, and leaves the store empty; and the reply
\* written reads as that number.
FlushContract ==
    [][\A c \in Conns :
         /\ Runs(c, FLUSH) => /\ pc'[c] = "ENCODE_REPLY"
                              /\ resp'[c] = PyInt(Len(kv))
                              /\ kv' = <<>>
         /\ (Names(data[c], FLUSH) /\ pc[c] = "ENCODE_REPLY" /\ pc'[c] # pc[c])
               => (Writes(c) /\ Tag(resp[c]) = "int" /\ LastReply(c) = resp[c])]_vars

FlushSeen ==
    \E c \in Conns :
        /\ Len(out[c]) > 0
        /\ Names(out[c][Len(out[c])].req, FLUSH)
        /\ ReadReply(out[c][Len(out[c])].reply) = PyInt(2)
        /\ kv = <<>>

\* C13: MGET of n keys returns a list of length n whose i-th element is the
\* value stored under the i-th key, or null when that key is absent, and
\* leaves the store as it is; and the reply written reads as that list.
MgetContract ==
    [][\A c \in Conns :
         /\ (Runs(c, MGET) /\ \A i \in 1..Len(Args(c)) : Hashable(Args(c)[i])) =>
               /\ pc'[c] = "ENCODE_REPLY"
               /\ kv' = kv
               /\ Tag(resp'[c]) = "list"
               /\ Len(Payload(resp'[c])) = Len(Args(c))
               /\ \A i \in 1..Len(Args(c)) :
                     Payload(resp'[c])[i] =
                         IF \E j \in 1..Len(kv) : kv[j][1] = Args(c)[i]
                         THEN kv[CHOOSE j \in 1..Len(kv) : kv[j][1] = Args(c)[i]][2]
                         ELSE None
         /\ (Names(data[c], MGET) /\ pc[c] = "ENCODE_REPLY" /\ pc'[c] # pc[c])
               => (Writes(c) /\ Tag(resp[c]) = "list" /\ LastReply(c) = resp[c])]_vars

MgetSeen ==
    \E c \in Conns :
        /\ Len(out[c]) > 0
        /\ Names(out[c][Len(out[c])].req, MGET)
        /\ ReqArgs(out[c][Len(out[c])].req) = <<Ka, Kb>>
        /\ ReadReply(out[c][Len(out[c])].reply) = List(<<Vx, None>>)

\* the step of c decodes a request that starts with this tag byte
Arrives(c, tags) ==
    /\ pc[c] = "AWAITING_REQUEST"
    /\ inbuf[c] # <<>>
    /\ Head(inbuf[c]) \in tags
    /\ pc'[c] = "DISPATCH"

\* C14: a request decoded from a tag other than that of an Array or of a
\* SimpleString makes get_response raise the CommandError "Request must be
\* list or simple string", no handler being entered.
RequestShape ==
    [][\A c \in Conns :
         Arrives(c, TagBytes \ {"*", "+"}) =>
             get_response(data'[c]) = Raise("CommandError", Str(MustBeList), <<>>)]_vars

\* the first token of the request is this command's name, in any case of letters
SameName(tok, command) == Tag(tok) = "bytes" /\ upper(Payload(tok)) = command

\* C15: dispatching a non-empty request whose first token is a command's name
\* in any case of letters enters that command's handler with the remaining
\* tokens in order, which mset alone may refuse; with any other first token
\* it raises the CommandError "Unrecognized command: <name>".
CommandLookup ==
    [][\A c \in Conns :
         (pc[c] = "DISPATCH" /\ Tokens(data[c]) # <<>> /\ pc'[c] # pc[c]) =>
             LET tok == Tokens(data[c])[1] IN
             IF \E command \in get_commands : SameName(tok, command)
             THEN \/ /\ pc'[c] = "LOCKED"
                     /\ SameName(tok, Command(c))
                     /\ Args(c) = Tail(Tokens(data[c]))
                  \/ /\ pc'[c] = "ENCODE_REPLY"
                     /\ SameName(tok, MSET)
                     /\ resp'[c] = Error(Str(MsetEven))
             ELSE /\ pc'[c] = "ENCODE_REPLY"
                  /\ Tag(resp'[c]) = "Error"
                  /\ Payload(Payload(resp'[c]))[1] = Unrecognized(<<>>)[1]]_vars

\* what connection_handler holds for c
Handler(c) == <<pc[c], data[c], idx[c], resp[c], out[c], decoded[c], seen[c]>>

\* C16: a decode whose first read returns no byte, the client having closed
\* a socket that is not reset, raises Disconnect and ends the handler without
\* writing anything or touching the store; and once the handler has ended so,
\* no step writes a reply on the connection or takes a step of its handler,
\* the store being changed only by steps of the other connections.
DisconnectEnds ==
    [][\A c \in Conns :
         /\ (/\ pc[c] = "AWAITING_REQUEST"
             /\ inbuf[c] = <<>>
             /\ eof[c]
             /\ ~Broken(c)
             /\ Handler(c)' # Handler(c))
               => /\ handle_request(inbuf[c], eof[c]).val[1] = "Disconnect"
                  /\ pc'[c] = "CLOSED"
                  /\ out' = out
                  /\ kv' = kv
         /\ pc[c] = "CLOSED"
               => /\ Handler(c)' = Handler(c)
                  /\ kv' # kv => \E d \in Holders \ {c} : Handler(d)' # Handler(d)]_vars

DisconnectSeen ==
    \E c, d \in Conns :
        /\ pc[c] = "CLOSED"
        /\ Len(out[c]) > 0
        /\ pc[d] = "ENCODE_REPLY"
        /\ kv # <<>>

\* C17: GET returns null exactly when its key is absent from the store, and
\* the reply written reads as null exactly then: a key that is present is
\* never answered with the null reply.
GetNullIffAbsent ==
    [][\A c \in Conns :
         /\ (Runs(c, GET) /\ Hashable(Args(c)[1])) =>
               /\ pc'[c] = "ENCODE_REPLY"
               /\ resp'[c] = None <=> ~(\E i \in 1..Len(kv) : kv[i][1] = Args(c)[1])
         /\ (Names(data[c], GET) /\ Writes(c)) =>
               (LastReply(c) = None <=> resp[c] = None)]_vars

\* the encodings of the objects after the i-th, one after the other
RECURSIVE Encodings(_)
Encodings(i) ==
    IF i >= Len(vals) THEN <<>> ELSE _write(vals[i + 1]).val \o Encodings(i + 1)

\* the i-th decode call gave the i-th object and left the stream at the first
\* byte after its encoding
DecodedExactly(i) ==
    /\ got[i].st = "ok"
    /\ got[i].val = Content(vals[i])
    /\ got[i].rest = Encodings(i)

\* C18 as stated: of the encodings of any objects one after the other, each
\* decode call gives the next object and leaves the stream at the first byte
\* of the encoding after it.
DecodeExactAll ==
    \A i \in 1..Len(vals) : Decoded(i) => DecodedExactly(i)

\* C18 amended: the same, for objects in which no Error message has an LF or
\* ends with CR, and no mapping has a sequence as a key or two keys of the
\* same content.
DecodeExactClean ==
    \A i \in 1..Len(vals) :
        (Decoded(i) /\ \A j \in 1..i : Clean(vals[j])) => DecodedExactly(i)

DecodeExactSeen ==
    /\ Len(vals) = 2
    /\ Decoded(2)
    /\ vals[1] = Tuple(<<Str(GET), Ka>>)
    /\ vals[2] = Dict(<<<<Ka, Vx>>, <<PyInt(1), List(<<>>)>>>>)
    /\ got[1].val = List(<<Bytes(GET), Ka>>)
    /\ got[1].rest = _write(vals[2]).val
    /\ got[2].val = vals[2]

\* c waits for bytes of a request that have not arrived
Blocked(c) ==
    /\ pc[c] = "AWAITING_REQUEST"
    /\ handle_request(inbuf[c], eof[c]).st = "block"

\* C19: the lock is free whenever no connection is inside a handler body, so
\* in every state where all connections await a request or a reply is being
\* written; and a request that has been decoded gets through its handler,
\* whatever the connections that wait for bytes do.
LockFreeWhenAwaiting ==
    /\ []((\A c \in Conns : pc[c] # "LOCKED") => lock = 1)
    /\ [](\A c \in Conns : (Blocked(c) \/ pc[c] = "ENCODE_REPLY") => c \notin Holders)
    /\ \A d \in Conns :
          pc[d] = "DISPATCH" ~> pc[d] \in {"AWAITING_REQUEST", "FAILED"}

StalledSeen ==
    /\ Blocked(Staller)
    /\ inbuf[Staller] = Partial
    /\ lock = 1
    /\ \E d \in Conns \ {Staller} : Len(out[d]) = 1 /\ pc[d] = "AWAITING_REQUEST"

\* C20: the reply written for a request whose handler returned normally is
\* never an Error reply, whatever the store holds.
ErrorReplyOnlyOnFailure ==
    [][\A c \in Conns :
         (Writes(c) /\ get_response(data[c]).st = "ok") => ~IsErrorReply(out'[c][Len(out'[c])].reply)]_vars
====
